---- MODULE Spec2Model ----
(***************************************************************************)
(* Model of generate_sweden_json.py: the paginated fetch of shelter        *)
(* records (fetch_all_shelters), their conversion to the app's GeoJSON     *)
(* (convert_to_app_format) and the main block that chains fetch, convert,  *)
(* write and read-back.                                                    *)
(*                                                                         *)
(* Two specifications:                                                     *)
(*   Spec      the whole run; the service answers every request with any   *)
(*             response it likes (exception, error body, any page).        *)
(*   SpecConv  convert_to_app_format alone, applied to input lists drawn   *)
(*             from a wide set of raw records.                             *)
(*                                                                         *)
(* Left out: the progress and report text printed to standard output, the  *)
(* diagnostic swedish_char_count (line 70, 88-89, printed only) and the    *)
(* local shelter_nr (line 95, never used).  Raw records are JSON objects   *)
(* whose "attributes" and "geometry" are objects or absent, Gatuadress a   *)
(* string, null or absent, AntalPlatser a number, null or absent; the      *)
(* file system accepts the write and the read.                             *)
(***************************************************************************)
EXTENDS Integers, Sequences, FiniteSets, TLC

VARIABLES pc, offset, all_features, requests, responses,
          arcgis_features, geojson, file, opens, exit_code, stages

vars == <<pc, offset, all_features, requests, responses,
          arcgis_features, geojson, file, opens, exit_code, stages>>

(***************************************************************************)
(* Bounds.                                                                 *)
(***************************************************************************)
\* page_size of the model; it stands for the program's 2000 (line 21), every
\* comparison and increment of the code is kept relative to it.
PageSize == 2
\* cap on the number of page requests one run of the model issues
MaxRequests == 3
\* largest number of records an honestly answering service holds
MaxN == 4
\* longest input list given to convert_to_app_format in SpecConv
MaxRecs == 2
\* numeric attribute values are multiples of 1/Denom ...
Denom == 2
\* ... between -CapMax/Denom and CapMax/Denom
CapMax == 3

(***************************************************************************)
(* JSON values as the program sees them after response.json().             *)
(***************************************************************************)
Null == [t |-> "null", s |-> <<>>, n |-> 0]
Str(chars) == [t |-> "str", s |-> chars, n |-> 0]
\* the number k / Denom
Num(k) == [t |-> "num", s |-> <<>>, n |-> k]

\* dict.get(key, default)
Get(d, key, default) == IF key \in DOMAIN d THEN d[key] ELSE default

\* Python truth value of None, a str or a number
Truthy(v) ==
  CASE v.t = "null" -> FALSE
    [] v.t = "str" -> v.s # <<>>
    [] v.t = "num" -> v.n # 0

\* the empty dict
EmptyDict == [k \in {} |-> Null]

Space == " "

RECURSIVE LStrip(_)
LStrip(chars) ==
  IF chars # <<>> /\ Head(chars) = Space THEN LStrip(Tail(chars)) ELSE chars

RECURSIVE RStrip(_)
RStrip(chars) ==
  IF chars # <<>> /\ chars[Len(chars)] = Space
  THEN RStrip(SubSeq(chars, 1, Len(chars) - 1))
  ELSE chars

\* str.strip()
PyStrip(chars) == RStrip(LStrip(chars))

\* str(address) for the address values of the model (strings)
PyStr(v) == v.s

\* a variant of PyInt: rounding down instead of toward zero
PyIntFloor(v) == v.n \div Denom

\* int(capacity) for a number: truncation toward zero
PyInt(v) == IF v.n >= 0 THEN v.n \div Denom ELSE -((-v.n) \div Denom)

Placeholder == <<"O", "k", "ä", "n", "d", " ", "a", "d", "r", "e", "s", "s">>

Today == "today"

(***************************************************************************)
(* convert_to_app_format                                                   *)
(***************************************************************************)
\* line 77: "x" in geom and "y" in geom
HasGeometry(geom) == "x" \in DOMAIN geom /\ "y" \in DOMAIN geom

\* a variant of Coordinates: latitude first
CoordinatesSwapped(geom) == <<geom["y"], geom["x"]>>

\* lines 78, 101: lon, lat = geom["x"], geom["y"]; "coordinates": [lon, lat]
Coordinates(geom) == <<geom["x"], geom["y"]>>

\* lines 84-86: the address, a JSON value (it stays None or "" when falsy)
Adresse(attrs) ==
  LET address == Get(attrs, "Gatuadress", Str(Placeholder))
  IN  IF Truthy(address) THEN Str(PyStrip(PyStr(address))) ELSE address

\* lines 91-93, 105: the capacity, a Python int
Plasser(attrs) ==
  LET got == Get(attrs, "AntalPlatser", Num(0))
      capacity == IF got = Null THEN Num(0) ELSE got
  IN  IF Truthy(capacity) THEN PyInt(capacity) ELSE 0

\* a variant of Romnr: the position in the output list
RomnrOutputPosition(idx, features) == Len(features)

\* line 104: "romnr": idx, the index enumerate() gives the source record;
\* features is the output list built so far
Romnr(idx, features) == idx

\* lines 97-109: the feature built for a record that has geometry
Feature(arcgis_feature, idx, features) ==
  LET attrs == Get(arcgis_feature, "attributes", EmptyDict)
      geom == Get(arcgis_feature, "geometry", EmptyDict)
  IN  [type |-> "Feature",
       geometry |-> [type |-> "Point", coordinates |-> Coordinates(geom)],
       properties |-> [romnr |-> Romnr(idx, features),
                       plasser |-> Plasser(attrs),
                       adresse |-> Adresse(attrs),
                       datauttaksdato |-> Today]]

\* lines 72-110: the loop over enumerate(arcgis_features), from index idx on
RECURSIVE ConvertLoop(_, _, _)
ConvertLoop(records, idx, features) ==
  IF idx >= Len(records) THEN features
  ELSE LET arcgis_feature == records[idx + 1]
           geom == Get(arcgis_feature, "geometry", EmptyDict)
       IN  IF HasGeometry(geom)
           THEN ConvertLoop(records, idx + 1,
                            Append(features, Feature(arcgis_feature, idx, features)))
           ELSE ConvertLoop(records, idx + 1, features)

\* lines 64-121
convert_to_app_format(records) ==
  [type |-> "FeatureCollection",
   name |-> "Skyddsrum Sverige",
   features |-> ConvertLoop(records, 0, <<>>)]

\* no document yet
NoDoc == [type |-> "None", name |-> "", features |-> <<>>]

(***************************************************************************)
(* Raw records.                                                            *)
(***************************************************************************)
GeomOf(D) == [k \in D |-> IF k = "x" THEN 18 ELSE 59]
Geoms == {GeomOf(D) : D \in SUBSET {"x", "y"}}

AddrStrings ==
  {<<>>, <<" ">>, <<"a">>, <<" ", "a", " ">>, <<"a", " ", "b">>, <<"ä", " ">>}
AddrVals == {Null} \cup {Str(chars) : chars \in AddrStrings}
CapVals == {Null} \cup {Num(k) : k \in (-CapMax)..CapMax}

Attrs ==
  UNION {{[k \in D |-> IF k = "Gatuadress" THEN a ELSE c] :
            a \in AddrVals, c \in CapVals} :
         D \in SUBSET {"Gatuadress", "AntalPlatser"}}

\* every raw record of the model: each key of the record, of its attributes
\* and of its geometry present or absent
RawRecords ==
  UNION {{[k \in D |-> IF k = "attributes" THEN a ELSE g] :
            a \in Attrs, g \in Geoms} :
         D \in SUBSET {"attributes", "geometry"}}

\* two plain records: one with geometry, one without
Good ==
  [attributes |-> [Gatuadress |-> Str(<<"S", "t", "o", "r", "g", "a", "t", "a", "n", " ", "5">>),
                   AntalPlatser |-> Num(40 * Denom)],
   geometry |-> [x |-> 11, y |-> 57]]
NoGeom ==
  [attributes |-> [Gatuadress |-> Null, AntalPlatser |-> Null],
   geometry |-> [k \in {} |-> 0]]
Catalogue == <<Good, NoGeom>>
PlainRecords == {Catalogue[i] : i \in DOMAIN Catalogue}

RECURSIVE SeqsUpTo(_, _)
SeqsUpTo(S, n) ==
  IF n = 0 THEN {<<>>}
  ELSE LET shorter == SeqsUpTo(S, n - 1)
       IN  shorter \cup {Append(q, e) : q \in {r \in shorter : Len(r) = n - 1}, e \in S}

\* input lists of SpecConv: one record drawn from RawRecords, the records
\* around it plain, at most MaxRecs records in all; and the empty list
Around ==
  {pp \in SeqsUpTo(PlainRecords, MaxRecs - 1) \X SeqsUpTo(PlainRecords, MaxRecs - 1) :
     Len(pp[1]) + Len(pp[2]) <= MaxRecs - 1}
ConvInputs ==
  {<<>>} \cup {pp[1] \o <<r>> \o pp[2] : r \in RawRecords, pp \in Around}

(***************************************************************************)
(* fetch_all_shelters                                                      *)
(***************************************************************************)
\* the pages the service may send: any list of at most page_size records
\* (the request asks for resultRecordCount = page_size, the service's
\* maximum record count, lines 21 and 31)
Pages == SeqsUpTo(PlainRecords, PageSize)

\* what one requests.get + raise_for_status + response.json() gives: an
\* exception, or a body with or without the keys "error" and "features"
Responses ==
  {[kind |-> "exception", has_error |-> FALSE, has_features |-> FALSE, features |-> <<>>]}
  \cup {[kind |-> "json", has_error |-> e, has_features |-> TRUE, features |-> p] :
          e \in BOOLEAN, p \in Pages}
  \cup {[kind |-> "json", has_error |-> e, has_features |-> FALSE, features |-> <<>>] :
          e \in BOOLEAN}

\* a variant of HasError: the error field is not looked at
HasErrorIgnored(data) == FALSE

\* line 40: "error" in data
HasError(data) == data.has_error

\* line 44: data.get("features", [])
DataFeatures(data) == IF data.has_features THEN data.features ELSE <<>>

\* a variant of Extend: the page goes in front
ExtendInFront(list, features) == features \o list

\* line 48: all_features.extend(features)
Extend(list, features) == list \o features

\* variants of LastPage: a short page does not stop the loop; a full page
\* stops it too
LastPageNever(features) == FALSE
LastPageInclusive(features) == Len(features) <= PageSize

\* line 52: len(features) < page_size
LastPage(features) == Len(features) < PageSize

\* a variant of NextOffset: the same offset again
NextOffsetSame(off) == off

\* line 55: offset += page_size
NextOffset(off) == off + PageSize

\* lines 24-59: one iteration of the while loop, the service answering resp
FetchPage(resp) ==
  /\ pc = "loop"
  /\ Len(requests) < MaxRequests
  /\ requests' = Append(requests, offset)
  /\ responses' = Append(responses, resp)
  /\ IF resp.kind = "exception"
     THEN /\ pc' = "return"
          /\ UNCHANGED <<offset, all_features>>
     ELSE IF HasError(resp)
     THEN /\ pc' = "return"
          /\ UNCHANGED <<offset, all_features>>
     ELSE LET features == DataFeatures(resp)
          IN  IF features = <<>>
              THEN /\ pc' = "return"
                   /\ UNCHANGED <<offset, all_features>>
              ELSE /\ all_features' = Extend(all_features, features)
                   /\ IF LastPage(features)
                      THEN pc' = "return" /\ UNCHANGED offset
                      ELSE pc' = "loop" /\ offset' = NextOffset(offset)
  /\ UNCHANGED <<arcgis_features, geojson, file, opens, exit_code, stages>>

(***************************************************************************)
(* __main__                                                                *)
(***************************************************************************)
NoFile == [type |-> "NoFile", name |-> "", features |-> <<>>]
NoExit == -1

\* a variant of IsEmpty: the empty list is not caught
IsEmptyNever(list) == FALSE

\* line 130: not arcgis_features
IsEmpty(list) == list = <<>>

\* lines 61-62, 128-132: fetch_all_shelters returns, main tests the list
MainCheck ==
  /\ pc = "return"
  /\ arcgis_features' = all_features
  /\ IF IsEmpty(all_features)
     THEN pc' = "exited" /\ exit_code' = 1
     ELSE pc' = "convert" /\ UNCHANGED exit_code
  /\ UNCHANGED <<offset, all_features, requests, responses, geojson, file, opens, stages>>

\* line 135
Convert ==
  /\ pc = "convert"
  /\ geojson' = convert_to_app_format(arcgis_features)
  /\ stages' = Append(stages, "transform")
  /\ pc' = "write"
  /\ UNCHANGED <<offset, all_features, requests, responses, arcgis_features, file, opens,
                 exit_code>>

\* lines 138-140: open(output_file, "w"), json.dump
WriteFile ==
  /\ pc = "write"
  /\ opens' = Append(opens, "w")
  /\ file' = geojson
  /\ stages' = Append(stages, "write")
  /\ pc' = "verify"
  /\ UNCHANGED <<offset, all_features, requests, responses, arcgis_features, geojson,
                 exit_code>>

\* lines 149-168: open(output_file, "r"), f.read(), the report, the end of
\* the script
ReadBack ==
  /\ pc = "verify"
  /\ opens' = Append(opens, "r")
  /\ stages' = Append(stages, "read")
  /\ exit_code' = 0
  /\ pc' = "exited"
  /\ UNCHANGED <<offset, all_features, requests, responses, arcgis_features, geojson, file>>

Init ==
  /\ pc = "loop"
  /\ offset = 0
  /\ all_features = <<>>
  /\ requests = <<>>
  /\ responses = <<>>
  /\ arcgis_features = <<>>
  /\ geojson = NoDoc
  /\ file = NoFile
  /\ opens = <<>>
  /\ exit_code = NoExit
  /\ stages = <<"fetch">>

Next ==
  \/ \E resp \in Responses : FetchPage(resp)
  \/ MainCheck
  \/ Convert
  \/ WriteFile
  \/ ReadBack

Spec == Init /\ [][Next]_vars

\* convert_to_app_format on its own
InitConv ==
  /\ pc = "convert"
  /\ offset = 0
  /\ all_features = <<>>
  /\ requests = <<>>
  /\ responses = <<>>
  /\ arcgis_features \in ConvInputs
  /\ geojson = NoDoc
  /\ file = NoFile
  /\ opens = <<>>
  /\ exit_code = NoExit
  /\ stages = <<"fetch">>

NextConv == Convert

SpecConv == InitConv /\ [][NextConv]_vars

(***************************************************************************)
(* Properties of the fetch loop and of the run (specification Spec).       *)
(* requests and responses are the history of the run: the offset of each   *)
(* request in the order issued, and the answer to each.                    *)
(***************************************************************************)
\* a body without an error field
Clean(r) == r.kind = "json" /\ ~r.has_error
\* an exception, or a body with an error field
Failing(r) == r.kind = "exception" \/ r.has_error
\* the features a body carries
PageOf(r) == IF r.has_features THEN r.features ELSE <<>>
Short(r) == Clean(r) /\ Len(PageOf(r)) < PageSize
Full(r) == Clean(r) /\ Len(PageOf(r)) = PageSize
Last(q) == q[Len(q)]
Front(q) == SubSeq(q, 1, Len(q) - 1)

\* the features of the clean responses, in response order
RECURSIVE FlattenPages(_)
FlattenPages(resps) ==
  IF resps = <<>> THEN <<>>
  ELSE FlattenPages(Front(resps)) \o (IF Clean(Last(resps)) THEN PageOf(Last(resps)) ELSE <<>>)

RECURSIVE SumCounts(_)
SumCounts(resps) ==
  IF resps = <<>> THEN 0
  ELSE SumCounts(Front(resps)) + (IF Clean(Last(resps)) THEN Len(PageOf(Last(resps))) ELSE 0)

\* C1: the accumulated list is, at every moment, the concatenation in
\* response order of the features of the pages consumed so far, its length
\* the sum of their feature counts; the list main receives is that list.
C1_Concatenation ==
  /\ all_features = FlattenPages(responses)
  /\ Len(all_features) = SumCounts(responses)
  /\ pc \notin {"loop", "return"} => arcgis_features = FlattenPages(responses)

\* a run that consumed a full page and then a final short one
C1_Witness ==
  /\ pc = "exited"
  /\ Len(responses) >= 2
  /\ Short(Last(responses)) /\ PageOf(Last(responses)) # <<>>
  /\ Len(arcgis_features) = Len(PageOf(responses[1])) + Len(PageOf(Last(responses)))
  /\ PageOf(responses[1]) # PageOf(Last(responses))

\* the last answer was a page of fewer than page_size features (maybe none)
ShortReceived == responses # <<>> /\ Short(Last(responses))

\* C2: a page shorter than page_size is the last one consumed: its features
\* (none for an empty page) are appended to what was accumulated before it,
\* the loop is left, and no request is issued from then on.
C2_ShortPageIsLast ==
  /\ [](\A k \in DOMAIN responses :
          Short(responses[k]) =>
            /\ k = Len(responses)
            /\ pc # "loop"
            /\ all_features = FlattenPages(SubSeq(responses, 1, k - 1)) \o PageOf(responses[k]))
  /\ [][ShortReceived => (requests' = requests /\ all_features' = all_features)]_vars

\* a short, non-empty page came second and the run went on to its end
C2_Witness ==
  /\ pc = "exited"
  /\ Len(requests) = 2
  /\ Len(requests) < MaxRequests
  /\ ShortReceived
  /\ PageOf(Last(responses)) # <<>>
  /\ Len(all_features) = PageSize + Len(PageOf(Last(responses)))

\* C3: a failing request (exception or error body) is the last request of
\* the run; nothing of the failing response is kept, and the list returned
\* is what the pages before it gave.
C3_FailureStops ==
  \A k \in DOMAIN responses :
    Failing(responses[k]) =>
      /\ k = Len(responses)
      /\ Len(requests) = k
      /\ pc # "loop"
      /\ all_features = FlattenPages(SubSeq(responses, 1, k - 1))
      /\ Len(all_features) = (k - 1) * PageSize
      /\ pc \notin {"loop", "return"} => arcgis_features = all_features

\* the second request got an error body that also carries features, and
\* the run ended with the first page only
C3_Witness ==
  /\ pc = "exited"
  /\ Len(responses) = 2
  /\ Last(responses).kind = "json" /\ Last(responses).has_error
  /\ PageOf(Last(responses)) # <<>>
  /\ arcgis_features = PageOf(responses[1])

Server(n) == [i \in 1..n |-> Catalogue[((i - 1) % Len(Catalogue)) + 1]]
Min(a, b) == IF a < b THEN a ELSE b
\* the k-th answer is the honest one of a service holding n records
HonestAt(n, k) ==
  responses[k] =
    [kind |-> "json", has_error |-> FALSE, has_features |-> TRUE,
     features |-> SubSeq(Server(n), requests[k] + 1, Min(requests[k] + PageSize, n))]
Honest(n) == \A k \in DOMAIN responses : HonestAt(n, k)

\* C10: the loop is still running exactly when every answer so far was a
\* full page without error (so any exception, error body, empty or short
\* page ends it, and nothing else does: full pages forever keep it going);
\* with an honest service of n records it issues at most n div page_size + 1
\* requests and has stopped after that many.
C10_Termination ==
  /\ (pc = "loop") <=> (\A k \in DOMAIN responses : Full(responses[k]))
  /\ \A n \in 0..MaxN :
       Honest(n) =>
         /\ Len(requests) <= n \div PageSize + 1
         /\ Len(requests) = n \div PageSize + 1 => pc # "loop"

\* an honest service whose record count is a multiple of page_size: the
\* loop stopped on the empty page after the full ones
C10_Witness ==
  /\ pc = "return"
  /\ Len(requests) = 2
  /\ Honest(PageSize)
  /\ Last(responses).features = <<>>

FullStages == <<"fetch", "transform", "write", "read">>

\* C8: the run ends with exit code 1 exactly when the fetch returned no
\* record, and then nothing was converted and no file was opened; in every
\* other run the stages are fetch, transform, write, read in this order,
\* the file written once and read once, and the exit code is 0.
C8_ExitAndOrder ==
  /\ exit_code \in {NoExit, 0, 1}
  /\ (exit_code # NoExit) <=> (pc = "exited")
  /\ pc = "exited" => ((exit_code = 1) <=> (arcgis_features = <<>>))
  /\ exit_code = 1 =>
       stages = <<"fetch">> /\ opens = <<>> /\ file = NoFile /\ geojson = NoDoc
  /\ exit_code = 0 =>
       /\ stages = FullStages
       /\ opens = <<"w", "r">>
       /\ geojson # NoDoc /\ file = geojson
       /\ arcgis_features = all_features
  /\ \E n \in 0..Len(FullStages) : stages = SubSeq(FullStages, 1, n)
  /\ opens \in {<<>>, <<"w">>, <<"w", "r">>}
  /\ (opens = <<>>) <=> (file = NoFile)

\* a fetch that ended on a failure after a first page still exits with 0
C8_Witness ==
  /\ pc = "exited"
  /\ exit_code = 0
  /\ Len(responses) = 2
  /\ Failing(Last(responses))
  /\ arcgis_features # <<>>

(***************************************************************************)
(* Properties of convert_to_app_format (specification SpecConv).           *)
(***************************************************************************)
Converted == pc = "write"
Out == geojson.features

\* the record carries a geometry with both x and y
HasXY(r) == "geometry" \in DOMAIN r /\ {"x", "y"} \subseteq DOMAIN r["geometry"]

\* the 1-based input positions of the records with both x and y, ascending
RECURSIVE KeptUpTo(_, _)
KeptUpTo(records, n) ==
  IF n = 0 THEN <<>>
  ELSE IF HasXY(records[n]) THEN Append(KeptUpTo(records, n - 1), n)
  ELSE KeptUpTo(records, n - 1)
Kept == KeptUpTo(arcgis_features, Len(arcgis_features))
Skipped == {i \in DOMAIN arcgis_features : ~HasXY(arcgis_features[i])}

\* the input record the j-th output feature comes from, and its attributes
Source(j) == arcgis_features[Kept[j]]
SourceAttrs(j) == IF "attributes" \in DOMAIN Source(j) THEN Source(j)["attributes"] ELSE EmptyDict

\* C7: one feature per input record with both x and y and none for the
\* others, in input order, each with the coordinates [x, y] of its own
\* record; emitted plus skipped is the input count.
C7_OnePerGeometry ==
  Converted =>
    /\ Len(Out) = Len(Kept)
    /\ Len(Out) + Cardinality(Skipped) = Len(arcgis_features)
    /\ \A j \in DOMAIN Out :
         /\ Out[j].geometry.coordinates =
              <<Source(j)["geometry"]["x"], Source(j)["geometry"]["y"]>>
         /\ Out[j].geometry.type = "Point"

\* a full-length input of which a record with x but no y was skipped and
\* every other record kept
C7_Witness ==
  /\ Converted
  /\ Len(arcgis_features) = MaxRecs
  /\ \E i \in DOMAIN arcgis_features :
       /\ "geometry" \in DOMAIN arcgis_features[i]
       /\ DOMAIN arcgis_features[i]["geometry"] = {"x"}
  /\ Len(Out) = MaxRecs - 1

\* C4 as stated: romnr is the 0-based position in the output list.
C4_RomnrIsOutputPosition ==
  Converted => \A j \in DOMAIN Out : Out[j].properties.romnr = j - 1

\* C4 as amended: romnr is the 0-based position of the feature's source
\* record in the input list, so it is the output position plus the number
\* of records skipped before it; the values increase strictly along the
\* output and equal the output positions only where nothing was skipped
\* earlier.
C4_RomnrIsInputPosition ==
  Converted =>
    /\ \A j \in DOMAIN Out :
         /\ Out[j].properties.romnr = Kept[j] - 1
         /\ Out[j].properties.romnr =
              (j - 1) + Cardinality({i \in Skipped : i < Kept[j]})
    /\ \A j, k \in DOMAIN Out :
         j < k => Out[j].properties.romnr < Out[k].properties.romnr

\* a feature emitted after a skipped record: its romnr is not its position
C4_Witness ==
  /\ Converted
  /\ \E j \in DOMAIN Out : Out[j].properties.romnr > j - 1

\* the AntalPlatser of the source record is missing or null
CapAbsent(j) ==
  "AntalPlatser" \notin DOMAIN SourceAttrs(j) \/ SourceAttrs(j)["AntalPlatser"] = Null

\* C5 as stated: plasser is never negative, and 0 for null or missing.
C5_PlasserNonNegative ==
  Converted =>
    \A j \in DOMAIN Out :
      /\ Out[j].properties.plasser >= 0
      /\ CapAbsent(j) => Out[j].properties.plasser = 0

\* C5 as amended: plasser is 0 for a null or missing AntalPlatser and
\* otherwise the number truncated toward zero; so it is non-negative
\* exactly when the number is greater than -1, and negative for a number
\* of -1 or less.
C5_PlasserTruncates ==
  Converted =>
    \A j \in DOMAIN Out :
      LET plasser == Out[j].properties.plasser
      IN  IF CapAbsent(j) THEN plasser = 0
          ELSE LET n == SourceAttrs(j)["AntalPlatser"].n
               IN  /\ (n > -Denom) <=> (plasser >= 0)
                   /\ n >= 0 => (plasser * Denom <= n /\ n < (plasser + 1) * Denom)
                   /\ n < 0 => (plasser * Denom >= n /\ n > (plasser - 1) * Denom)

\* a record with a capacity of -1 or less was emitted
C5_Witness ==
  /\ Converted
  /\ \E j \in DOMAIN Out :
       /\ ~CapAbsent(j)
       /\ SourceAttrs(j)["AntalPlatser"].n <= -Denom
       /\ Out[j].properties.plasser < 0

\* C6: adresse is the placeholder when Gatuadress is missing, null or
\* empty, and the trimmed Gatuadress otherwise.
C6_AdressePlaceholder ==
  Converted =>
    \A j \in DOMAIN Out :
      LET attrs == SourceAttrs(j)
      IN  IF \/ "Gatuadress" \notin DOMAIN attrs
             \/ attrs["Gatuadress"] = Null
             \/ attrs["Gatuadress"] = Str(<<>>)
          THEN Out[j].properties.adresse = Str(Placeholder)
          ELSE Out[j].properties.adresse = Str(PyStrip(attrs["Gatuadress"].s))

====
